---- MODULE Spec2Model ----
(***************************************************************************)
(* A model of the symmetry-line finder of symmetry.py.                     *)
(*                                                                         *)
(* Decimal values.  A Python Decimal is modelled by its numerical value:   *)
(* a finite value is the pair (c, e) meaning c * 10^e, kept in lowest form *)
(* (c is not a multiple of 10, and zero is (0, 0)); the quiet not-a-number *)
(* is a separate value.  Decimal's ==, hash and arithmetic depend on the   *)
(* value of the operands only, never on how many trailing zeros the        *)
(* operands carry, so nothing the program observes is lost.  Arithmetic is *)
(* the decimal module's: the exact result, rounded half-even to the        *)
(* context's precision.  The sign of a zero is not modelled.               *)
(***************************************************************************)
EXTENDS Integers, Sequences, FiniteSets, TLC

\* ------------------------------------------------------------------ bounds
\* the largest ambient precision (significant digits) a run may be given
MaxPrec == 3
\* input coordinates are the integers 0..MaxCoord (and one tiny abscissa)
MaxCoord == 2
\* the longest list of points handed to the constructor
MaxPoints == 3
\* the smallest precision normalize() can work at: it computes at prec - 1,
\* and a context precision must be at least 1
MinPrec == 2

\* ------------------------------------------------------- decimal arithmetic
\* An operand that is used more than once is first bound as a value
\* (a \in {x}), so that the expression it stands for is computed once.
Only(S) == CHOOSE v \in S : TRUE

NaN == [nan |-> TRUE, c |-> 0, e |-> 0]

Abs(n) == IF n < 0 THEN -n ELSE n

Sgn(n) == IF n < 0 THEN -1 ELSE 1

RECURSIVE NumDigits(_)
\* len(str(n)) for n >= 0
NumDigits(n) == IF n < 10 THEN 1 ELSE 1 + NumDigits(n \div 10)

RECURSIVE Canon(_, _)
\* the value c * 10^e in lowest form
Canon(c, e) ==
    IF c = 0 THEN [nan |-> FALSE, c |-> 0, e |-> 0]
    ELSE IF c % 10 = 0 THEN Canon(c \div 10, e + 1)
    ELSE [nan |-> FALSE, c |-> c, e |-> e]

\* the magnitude m with its last k digits dropped, rounded half-even
RoundHalfEven(m, k) ==
    IF k = 0 THEN m
    ELSE LET q == m \div (10 ^ k)
             r == m % (10 ^ k)
             half == 5 * (10 ^ (k - 1))
         IN  IF r > half \/ (r = half /\ q % 2 = 1) THEN q + 1 ELSE q

\* Decimal._fix: the value c0 * 10^e0 rounded to P significant digits
Fix(c0, e0, P) ==
    Only({IF d > P
          THEN Canon(Sgn(c) * RoundHalfEven(Abs(c), d - P), e0 + (d - P))
          ELSE Canon(c, e0) : c \in {c0}, d \in {NumDigits(Abs(c0))}})

\* the coefficient and exponent of the exact sum of two finite non-zero
\* values.  As in the decimal module, an operand too small to reach the
\* rounding position is replaced by a unit just below it, which rounds the
\* same way and keeps the aligned coefficient short.
AlignedSum(hi, lo, P) ==
    LET hlen == NumDigits(Abs(hi.c))
        llen == NumDigits(Abs(lo.c))
        m == IF hlen - P - 2 < -1 THEN hlen - P - 2 ELSE -1
        ex == hi.e + m
    IN  IF llen + lo.e - 1 < ex
        THEN [c |-> hi.c * (10 ^ (hi.e - ex)) + Sgn(lo.c), e |-> ex]
        ELSE [c |-> hi.c * (10 ^ (hi.e - lo.e)) + lo.c, e |-> lo.e]

\* Decimal.__add__ at precision P
DecAdd(x, y, P) ==
    Only({IF a.nan \/ b.nan THEN NaN
          ELSE IF a.c = 0 THEN Fix(b.c, b.e, P)
          ELSE IF b.c = 0 THEN Fix(a.c, a.e, P)
          ELSE Only({Fix(t.c, t.e, P) :
                     t \in {IF a.e < b.e THEN AlignedSum(b, a, P)
                            ELSE AlignedSum(a, b, P)}}) : a \in {x}, b \in {y}})

DecNeg(x) == Only({IF a.nan THEN NaN ELSE [a EXCEPT !.c = -a.c] : a \in {x}})

\* Decimal.__sub__
DecSub(x, y, P) == DecAdd(x, DecNeg(y), P)

\* Decimal.__mul__
DecMul(x, y, P) ==
    Only({IF a.nan \/ b.nan THEN NaN ELSE Fix(a.c * b.c, a.e + b.e, P) :
          a \in {x}, b \in {y}})

\* the quotient of two magnitudes to P + 1 digits, the last digit made
\* sticky when a remainder is left, and the power of ten it is scaled by
Quotient(n, d, P) ==
    LET shift == NumDigits(d) - NumDigits(n) + P + 1
        num == IF shift >= 0 THEN n * (10 ^ shift) ELSE n
        den == IF shift >= 0 THEN d ELSE d * (10 ^ (-shift))
    IN  Only({[q |-> IF num % den # 0 /\ q % 5 = 0 THEN q + 1 ELSE q,
               shift |-> shift] : q \in {num \div den}})

\* Decimal.__truediv__.  No call site divides by zero (Python would raise
\* DivisionByZero); the model answers NaN there.
DecDiv(x, y, P) ==
    Only({IF a.nan \/ b.nan \/ b.c = 0 THEN NaN
          ELSE IF a.c = 0 THEN Canon(0, 0)
          ELSE Only({Fix(Sgn(a.c) * Sgn(b.c) * r.q, a.e - b.e - r.shift, P) :
                     r \in {Quotient(Abs(a.c), Abs(b.c), P)}}) :
          a \in {x}, b \in {y}})

\* Decimal.__eq__: a not-a-number equals nothing, itself included
DecEq(x, y) ==
    \E a \in {x}, b \in {y} : ~a.nan /\ ~b.nan /\ a.c = b.c /\ a.e = b.e

\* Decimal(str(v)), Decimal(n): the value of an integer literal
DecInt(n) == Canon(n, 0)

\* ------------------------------------------------------------ normalize
\* d.normalize() in a local context of precision prec - 1: the value rounded
\* to prec - 1 significant digits, trailing zeros removed
normalize(d, P) == Only({IF a.nan THEN NaN ELSE Fix(a.c, a.e, P - 1) : a \in {d}})

\* Decimal(str(v)): printing a Decimal and parsing the text gives its value
DecOfStr(v) == Only({IF a.nan THEN NaN ELSE Canon(a.c, a.e) : a \in {v}})

\* ---------------------------------------------------------------- Point
Point(x, y) == [x |-> DecOfStr(x), y |-> DecOfStr(y)]

\* Point.__eq__
PointEq(a, b, P) ==
    /\ DecEq(normalize(a.x, P), normalize(b.x, P))
    /\ DecEq(normalize(a.y, P), normalize(b.y, P))

\* the tuple Point.__hash__ hashes; two hashes are equal iff the tuples are
PointHash(a, P) == <<normalize(a.x, P), normalize(a.y, P)>>

\* ----------------------------------------------------------------- Line
Line(slope, intercept, x) ==
    [slope |-> DecOfStr(slope), intercept |-> DecOfStr(intercept), x |-> DecOfStr(x)]

is_vertical(l) == l.slope.nan \/ l.intercept.nan

is_horizontal(l) == DecEq(l.slope, DecInt(0))

\* Line.__eq__
LineEq(a, b, P) ==
    IF is_vertical(a) /\ is_vertical(b)
    THEN ~a.x.nan /\ DecEq(normalize(a.x, P), normalize(b.x, P))
    ELSE /\ DecEq(normalize(a.slope, P), normalize(b.slope, P))
         /\ DecEq(normalize(a.intercept, P), normalize(b.intercept, P))

\* the tuple (s, i, x) Line.__hash__ hashes, an unset field standing as the
\* marker "nan"; two hashes are equal iff the tuples are
LineHash(a, P) ==
    <<IF ~a.slope.nan THEN normalize(a.slope, P) ELSE NaN,
      IF ~a.intercept.nan THEN normalize(a.intercept, P) ELSE NaN,
      IF ~a.x.nan THEN normalize(a.x, P) ELSE NaN>>

\* Line.from_points
from_points(q0, q1, P) ==
    Only({IF ~DecEq(DecSub(p1.x, p0.x, P), DecInt(0))
          THEN Only({Line(slope, DecSub(p1.y, DecMul(slope, p1.x, P), P), NaN) :
                     slope \in {DecDiv(DecSub(p1.y, p0.y, P),
                                       DecSub(p1.x, p0.x, P), P)}})
          ELSE Line(NaN, NaN, p1.x) : p0 \in {q0}, p1 \in {q1}})

\* Line.contains_point: p0.y == p0.x * slope + intercept, on the raw values
contains_point(l, p0, P) ==
    DecEq(p0.y, DecAdd(DecMul(p0.x, l.slope, P), l.intercept, P))

\* the abscissa of the foot of the perpendicular on a sloped line:
\* (m / (m*m + 1)) * (p0.y + p0.x / m - b)
FootX(l, p0, P) ==
    DecMul(DecDiv(l.slope,
                  DecAdd(DecMul(l.slope, l.slope, P), DecInt(1), P), P),
           DecSub(DecAdd(p0.y, DecDiv(p0.x, l.slope, P), P), l.intercept, P),
           P)

\* Line.perpendicular_intersection_point
perpendicular_intersection_point(l, p0, P) ==
    IF is_vertical(l) THEN Point(l.x, p0.y)
    ELSE IF is_horizontal(l) THEN Point(p0.x, l.intercept)
    ELSE Only({Point(x, DecAdd(DecMul(l.slope, x, P), l.intercept, P)) :
               x \in {FootX(l, p0, P)}})

\* Line.folded_point
folded_point(l, p0, P) ==
    IF contains_point(l, p0, P) THEN p0
    ELSE Only({Point(DecSub(DecMul(DecInt(2), p_int.x, P), p0.x, P),
                     DecSub(DecMul(DecInt(2), p_int.y, P), p0.y, P)) :
               p_int \in {perpendicular_intersection_point(l, p0, P)}})

\* the inner loop of is_symmetry_line: some points[i2] equals the folded
\* point f1 (the scan breaks at the first; nothing is removed from points)
Matched(points, f1, P) ==
    \E i2 \in 1..Len(points) : PointEq(points[i2], f1, P)

\* one pass of the outer loop of is_symmetry_line: the point folds onto
\* itself (continue), or onto some point of the list (matched)
FoldMatches(l, points, i1, P) ==
    \E f1 \in {folded_point(l, points[i1], P)} :
        PointEq(f1, points[i1], P) \/ Matched(points, f1, P)

\* Line.is_symmetry_line: False at the first point whose fold has no match,
\* True if the loop runs through
is_symmetry_line(l, points, P) ==
    \A i1 \in 1..Len(points) : FoldMatches(l, points, i1, P)

\* BisectionPoint.__init__: the midpoint (p1 - p0) / 2.0 + p0
BisectionPoint(p0, p1, P) ==
    Point(DecAdd(DecDiv(DecSub(p1.x, p0.x, P), DecInt(2), P), p0.x, P),
          DecAdd(DecDiv(DecSub(p1.y, p0.y, P), DecInt(2), P), p0.y, P))

\* ------------------------------------------------------ SymmetryLineFinder
RECURSIVE SumFrom(_, _, _, _)
\* sum([...]): the left fold 0 + v1 + v2 + ... in the ambient precision
SumFrom(vals, i, acc, P) ==
    IF i > Len(vals) THEN acc
    ELSE SumFrom(vals, i + 1, DecAdd(acc, vals[i], P), P)

\* SymmetryLineFinder._centroid
centroid(points, P) ==
    LET n == DecInt(Len(points))
        xs == [i \in 1..Len(points) |-> points[i].x]
        ys == [i \in 1..Len(points) |-> points[i].y]
    IN  Point(DecDiv(SumFrom(xs, 1, DecInt(0), P), n, P),
              DecDiv(SumFrom(ys, 1, DecInt(0), P), n, P))

\* p in s for a set of Points: same hash, and equal
PointIn(p, s, P) ==
    \E q \in s : PointHash(q, P) = PointHash(p, P) /\ PointEq(q, p, P)

RECURSIVE DedupFrom(_, _, _, _)
\* set(points): the first of every class of equal points is the one kept
DedupFrom(list, i, kept, P) ==
    IF i > Len(list) THEN kept
    ELSE IF PointIn(list[i], kept, P) THEN DedupFrom(list, i + 1, kept, P)
    ELSE DedupFrom(list, i + 1, kept \cup {list[i]}, P)

\* list(s): the elements of a set in an order the language does not fix
ListsOf(s) ==
    LET n == Cardinality(s)
    IN  {q \in [1..n -> s] : \A i, j \in 1..n : i # j => q[i] # q[j]}

\* line1 in visited: same hash, and equal
InVisited(line1, visited, P) ==
    \E v \in visited : LineHash(v, P) = LineHash(line1, P) /\ LineEq(v, line1, P)

\* a generator that forgets the lines it has yielded
VisitedAddNothing(visited, line1) == visited

\* visited.add(line1)
VisitedAdd(visited, line1) == visited \cup {line1}

\* the pair SymmetryLineFinder.find_all yields for a candidate line
Tagged(line, points, P) ==
    [sym |-> is_symmetry_line(line, points, P), line |-> line]

\* a find_all() generator that has not run yet: the body of a generator runs
\* at its first next().  n counts the lines constructed so far and at[m] is
\* the count at which out[m] was yielded.
NewGen ==
    [pc |-> "new", cent |-> Point(NaN, NaN), i0 |-> 0, i1 |-> 0, visited |-> {},
     out |-> <<>>, n |-> 0, at |-> <<>>]

NoGen == [NewGen EXCEPT !.pc = "none"]

\* the generator after line1 was constructed at the loop position (i0, i1):
\* yielded (the generator is suspended at the yield) or skipped
Emit(g, line, points, P) ==
    Only({IF ~InVisited(line1, g.visited, P)
          THEN [g EXCEPT !.visited = VisitedAdd(g.visited, line1),
                         !.out = Append(g.out, Tagged(line1, points, P)),
                         !.n = g.n + 1,
                         !.at = Append(g.at, g.n + 1),
                         !.pc = IF g.pc = "pairs" THEN "pairs_yield"
                                ELSE "vertices_yield"]
          ELSE [g EXCEPT !.n = g.n + 1] : line1 \in {line}})

RECURSIVE RunGen(_, _, _)
\* one next() on the generator: _candidate_symmetry_lines runs from where it
\* was suspended to its next yield, or to its end
RunGen(g, points, P) ==
    CASE g.pc = "new" ->
           IF Len(points) < 3 THEN [g EXCEPT !.pc = "done"]
           ELSE RunGen([g EXCEPT !.pc = "pairs", !.cent = centroid(points, P),
                                 !.i0 = 1, !.i1 = 2], points, P)
      [] g.pc = "pairs_yield" ->
           RunGen([g EXCEPT !.pc = "pairs", !.i1 = g.i1 + 1], points, P)
      [] g.pc = "vertices_yield" ->
           RunGen([g EXCEPT !.pc = "vertices", !.i0 = g.i0 + 1], points, P)
      [] g.pc = "pairs" ->
           IF g.i0 > Len(points) - 1
           THEN RunGen([g EXCEPT !.pc = "vertices", !.i0 = 1, !.i1 = 0], points, P)
           ELSE IF g.i1 > Len(points)
           THEN RunGen([g EXCEPT !.i0 = g.i0 + 1, !.i1 = g.i0 + 2], points, P)
           ELSE Only({IF h.pc = "pairs_yield" THEN h
                      ELSE RunGen([h EXCEPT !.i1 = g.i1 + 1], points, P) :
                      h \in {Emit(g, from_points(g.cent,
                                     BisectionPoint(points[g.i0], points[g.i1], P), P),
                                  points, P)}})
      [] g.pc = "vertices" ->
           IF g.i0 > Len(points) THEN [g EXCEPT !.pc = "done"]
           ELSE Only({IF h.pc = "vertices_yield" THEN h
                      ELSE RunGen([h EXCEPT !.i0 = g.i0 + 1], points, P) :
                      h \in {Emit(g, from_points(g.cent, points[g.i0], P), points, P)}})
      [] OTHER -> g

\* ------------------------------------------------------------------ inputs
\* the abscissa 10^-MaxPrec: one unit in the last place of a coordinate near 1
\* at the largest precision
TinyX == Canon(1, -MaxPrec)

XCoords == {DecInt(k) : k \in 0..MaxCoord} \cup {TinyX}

YCoords == {DecInt(k) : k \in 0..MaxCoord}

Universe == {Point(x, y) : x \in XCoords, y \in YCoords}

\* a fixed order of the universe, used to enumerate each list of points once
Rank(p) ==
    (IF p.x.e < 0 THEN MaxCoord + 1 ELSE p.x.c) * (MaxCoord + 1) + p.y.c

Slots == {1, 2}

\* the lines the Line constructor can build: any combination of slope,
\* intercept and x, each set or left unset (not-a-number)
SlopeVals == {DecInt(k) : k \in (-MaxCoord)..MaxCoord} \cup {Canon(5, -1), DecInt(7)}

Lines ==
    {Line(m, b, x) : m \in SlopeVals \cup {NaN}, b \in YCoords \cup {NaN},
                     x \in YCoords \cup {NaN}}

\* an abscissa that differs from 1 only past the digits Point equality keeps
NearOne == DecAdd(DecInt(1), TinyX, MaxPrec + 1)

PurePoints == {Point(x, y) : x \in XCoords \cup {NearOne}, y \in YCoords}

\* no method of Point or Line was called yet
NoCall == [op |-> "none"]

VARIABLES prec, input, finder, points, gens, call

vars == <<prec, input, finder, points, gens, call>>

\* the ambient precision is set, and nothing is built yet
Init ==
    /\ prec \in MinPrec..MaxPrec
    /\ input = <<>>
    /\ finder = "none"
    /\ points = <<>>
    /\ gens = [s \in Slots |-> NoGen]
    /\ call = NoCall

\* the caller appends a point to the list it will hand to the constructor.
\* The list is kept in rank order: the constructor's result does not depend
\* on the order of its argument.
AddPoint(p) ==
    /\ finder = "none"
    /\ Len(input) < MaxPoints
    /\ Len(input) > 0 => Rank(input[Len(input)]) <= Rank(p)
    /\ input' = Append(input, p)
    /\ UNCHANGED <<prec, finder, points, gens, call>>

\* a constructor that lets a list of two points through
TooFewOffByOne(list) == Len(list) < 2

\* the test SymmetryLineFinder.__init__ makes on its argument
TooFew(list) == Len(list) <= 2

\* SymmetryLineFinder(points)
Construct ==
    /\ finder = "none"
    /\ IF TooFew(input)
       THEN /\ finder' = "ValueError"
            /\ points' = <<>>
       ELSE /\ finder' = "built"
            /\ points' \in ListsOf(DedupFrom(input, 1, {}, prec))
    /\ UNCHANGED <<prec, input, gens, call>>

\* finder.find_all(): a new generator; the one the slot held is dropped
FindAll(s) ==
    /\ finder = "built"
    /\ gens' = [gens EXCEPT ![s] = NewGen]
    /\ UNCHANGED <<prec, input, finder, points, call>>

\* next() on the generator of slot s
ResumeGen(s) ==
    /\ finder = "built"
    /\ gens[s].pc \notin {"none", "done"}
    /\ gens' = [gens EXCEPT ![s] = RunGen(gens[s], points, prec)]
    /\ UNCHANGED <<prec, input, finder, points, call>>

Next ==
    \/ \E p \in Universe : AddPoint(p)
    \/ Construct
    \/ FindAll(1)
    \/ ResumeGen(1)

Spec == Init /\ [][Next]_vars

\* the constructor alone, on every list of up to MaxPoints points
NextConstruct ==
    \/ \E p \in Universe : AddPoint(p)
    \/ Construct

SpecConstruct == Init /\ [][NextConstruct]_vars

\* a == b and hash(a), hash(b) on two lines
CallLineEq(a, b) ==
    /\ call = NoCall
    /\ call' = [op |-> "line_eq", a |-> a, b |-> b, eq |-> LineEq(a, b, prec),
                ha |-> LineHash(a, prec), hb |-> LineHash(b, prec)]
    /\ UNCHANGED <<prec, input, finder, points, gens>>

\* a == b and hash(a), hash(b) on two points
CallPointEq(a, b) ==
    /\ call = NoCall
    /\ call' = [op |-> "point_eq", a |-> a, b |-> b, eq |-> PointEq(a, b, prec),
                ha |-> PointHash(a, prec), hb |-> PointHash(b, prec)]
    /\ UNCHANGED <<prec, input, finder, points, gens>>

\* L = Line.from_points(p0, p1) on two distinct points, then
\* L.contains_point(p0) and L.contains_point(p1)
CallFromPoints(p0, p1) ==
    /\ call = NoCall
    /\ ~PointEq(p0, p1, prec)
    /\ \E l \in {from_points(p0, p1, prec)} :
           call' = [op |-> "from_points", p0 |-> p0, p1 |-> p1, line |-> l,
                    on0 |-> contains_point(l, p0, prec),
                    on1 |-> contains_point(l, p1, prec)]
    /\ UNCHANGED <<prec, input, finder, points, gens>>

\* l.folded_point(p0)
CallFold(l, p0) ==
    /\ call = NoCall
    /\ call' = [op |-> "fold", line |-> l, p0 |-> p0,
                on |-> contains_point(l, p0, prec),
                foot |-> perpendicular_intersection_point(l, p0, prec),
                r |-> folded_point(l, p0, prec)]
    /\ UNCHANGED <<prec, input, finder, points, gens>>

\* the methods of Point and Line, each called once on every input
NextPure ==
    \/ \E a, b \in Lines : CallLineEq(a, b)
    \/ \E a, b \in PurePoints : CallPointEq(a, b)
    \/ \E p0, p1 \in PurePoints : CallFromPoints(p0, p1)
    \/ \E l \in Lines, p0 \in PurePoints : CallFold(l, p0)

SpecPure == Init /\ [][NextPure]_vars

\* the points a finder is restarted on: the corner of the universe, tiny
\* abscissa included
RestartUniverse == {p \in Universe : p.y.c <= 1 /\ p.x.c <= 1}

\* a caller holding a list of three points
InitRestart ==
    /\ prec \in MinPrec..MaxPrec
    /\ \E a, b, c \in RestartUniverse :
           /\ Rank(a) <= Rank(b)
           /\ Rank(b) <= Rank(c)
           /\ input = <<a, b, c>>
    /\ finder = "none"
    /\ points = <<>>
    /\ gens = [s \in Slots |-> NoGen]
    /\ call = NoCall

\* one finder, and find_all() generators started, resumed and dropped in any
\* interleaving
NextRestart ==
    \/ Construct
    \/ \E s \in Slots : FindAll(s)
    \/ \E s \in Slots : ResumeGen(s)

SpecRestart == InitRestart /\ [][NextRestart]_vars

\* the decimals normalize is called on: up to two digits at every scale the
\* precisions reach, and not-a-number
NormalizeArgs ==
    {Canon(c, -e) : c \in (-(10 * MaxCoord + 5))..(10 * MaxCoord + 5),
                    e \in 0..MaxPrec} \cup {NaN}

\* the ambient precision is set to anything the context accepts
InitAmbient ==
    /\ prec \in (MinPrec - 1)..MaxPrec
    /\ input = <<>>
    /\ finder = "none"
    /\ points = <<>>
    /\ gens = [s \in Slots |-> NoGen]
    /\ call = NoCall

\* a with block that leaves the context it set in place
ExitContextLeak(saved, current) == current

\* localcontext().__exit__: the context saved at __enter__ is current again
ExitContext(saved, current) == saved

\* normalize(d) up to the with statement: prec = getcontext().prec is read,
\* and localcontext().__enter__ saves the current context and makes a copy
\* of it current.  before is the precision the caller had.
NormalizeEnter(d) ==
    /\ call.op \in {"none", "returned", "raised"}
    /\ call' = [op |-> "entered", d |-> d, local |-> prec, saved |-> prec,
                before |-> prec]
    /\ UNCHANGED <<prec, input, finder, points, gens>>

\* ctx.prec = prec - 1: the context refuses a precision below 1 with
\* ValueError, and the with block is left through __exit__
NormalizeSetPrec ==
    /\ call.op = "entered"
    /\ IF call.local - 1 < 1
       THEN /\ prec' = ExitContext(call.saved, prec)
            /\ call' = [call EXCEPT !.op = "raised"]
       ELSE /\ prec' = call.local - 1
            /\ call' = [call EXCEPT !.op = "prec_set"]
    /\ UNCHANGED <<input, finder, points, gens>>

\* return d.normalize(): the value rounded in the current context, and the
\* with block is left through __exit__
NormalizeReturn ==
    /\ call.op = "prec_set"
    /\ call' = [op |-> "returned", d |-> call.d, local |-> call.local,
                saved |-> call.saved, before |-> call.before,
                result |-> IF call.d.nan THEN NaN
                           ELSE Fix(call.d.c, call.d.e, prec)]
    /\ prec' = ExitContext(call.saved, prec)
    /\ UNCHANGED <<input, finder, points, gens>>

\* normalize called again and again, at every precision
NextAmbient ==
    \/ \E d \in NormalizeArgs : NormalizeEnter(d)
    \/ NormalizeSetPrec
    \/ NormalizeReturn

SpecAmbient == InitAmbient /\ [][NextAmbient]_vars

\* an inner loop that takes the matched point out of the later scans
AfterMatchConsumed(avail, i2) == avail \ {i2}

\* the indices the inner loop of is_symmetry_line scans after points[i2] was
\* matched: all of range(0, len(points)) again, nothing is removed
AfterMatch(avail, i2) == avail

RECURSIVE ScanFrom(_, _, _, _, _)
\* for i2 in range(0, len(points)): the first i2 with points[i2] == f1 (the
\* loop breaks there), 0 if the loop runs through
ScanFrom(pts, f1, i2, avail, P) ==
    IF i2 > Len(pts) THEN 0
    ELSE IF i2 \in avail /\ PointEq(pts[i2], f1, P) THEN i2
    ELSE ScanFrom(pts, f1, i2 + 1, avail, P)

RECURSIVE SymmetryLoop(_, _, _, _, _)
\* for i1 in range(0, len(points)) of is_symmetry_line, from i1 on: what it
\* returns, the i1 it returned False at (0 if none), and the pairs
\* <<i1, i2>> it matched
SymmetryLoop(l, pts, i1, avail, P) ==
    IF i1 > Len(pts) THEN [result |-> TRUE, stop |-> 0, pairs |-> {}]
    ELSE Only({IF PointEq(f1, pts[i1], P)
               THEN SymmetryLoop(l, pts, i1 + 1, avail, P)
               ELSE Only({IF i2 = 0
                          THEN [result |-> FALSE, stop |-> i1, pairs |-> {}]
                          ELSE Only({[r EXCEPT !.pairs = r.pairs \cup {<<i1, i2>>}] :
                                     r \in {SymmetryLoop(l, pts, i1 + 1,
                                                AfterMatch(avail, i2), P)}}) :
                          i2 \in {ScanFrom(pts, f1, 1, avail, P)}}) :
               f1 \in {folded_point(l, pts[i1], P)}})

\* the lines is_symmetry_line is called on: the verticals, horizontals and
\* diagonals through half-integers
FoldLines ==
    {Line(NaN, NaN, Canon(5 * k, -1)) : k \in 0..(2 * MaxCoord)}
        \cup {Line(DecInt(m), Canon(5 * k, -1), NaN) :
                 m \in {-1, 0, 1}, k \in 0..(2 * MaxCoord)}

\* the points of the lists it is called on: the row and the column through
\* (1, 1), with the point of tiny abscissa
FoldPoints == {p \in RestartUniverse : p.x = DecInt(1) \/ p.y = DecInt(1)}

\* the lists of points it is called on, equal points and any order included
FoldLists == UNION {[1..n -> FoldPoints] : n \in 1..MaxPoints}

\* l.is_symmetry_line(pts)
CallIsSymmetryLine(l, pts) ==
    /\ call = NoCall
    /\ call' = [op |-> "is_symmetry_line", line |-> l, pts |-> pts,
                loop |-> SymmetryLoop(l, pts, 1, 1..Len(pts), prec)]
    /\ UNCHANGED <<prec, input, finder, points, gens>>

NextSymmetry == \E l \in FoldLines, pts \in FoldLists : CallIsSymmetryLine(l, pts)

SpecSymmetry == Init /\ [][NextSymmetry]_vars

\* ------------------------------------------------------------------ claims
PointSet == {points[i] : i \in 1..Len(points)}

\* the lines a generator has yielded tagged true: what find() yields
Found(g) == {g.out[m].line : m \in {k \in 1..Len(g.out) : g.out[k].sym}}

\* {line.folded_point(p) : p in points} == points, under Point equality
FoldsOnto(l, P) ==
    /\ \A p \in PointSet : \E q \in PointSet : PointEq(folded_point(l, p, P), q, P)
    /\ \A q \in PointSet : \E p \in PointSet : PointEq(folded_point(l, p, P), q, P)

\* C1: every line find() yields folds the finder's point set onto itself:
\* the set of the folded points equals the point set under Point equality.
FindSound ==
    \A s \in Slots : \A l \in Found(gens[s]) : FoldsOnto(l, prec)

\* exact decimal arithmetic, for the geometry the claims speak of: the
\* operands are short, so nine digits round nothing
ExactSub(a, b) == DecSub(a, b, 9)

ExactAdd(a, b) == DecAdd(a, b, 9)

Twice(a) == ExactAdd(a, a)

Half(k) == Canon(5 * k, -1)

\* every line that can be an axis of a set of points of the universe: the
\* vertical and horizontal lines and the diagonals through half-integers,
\* and the vertical line through the tiny abscissa
AxisVals == {Half(k) : k \in (-2 * MaxCoord)..(4 * MaxCoord)}

AxisLines ==
    {Line(NaN, NaN, a) : a \in AxisVals \cup {TinyX}}
        \cup {Line(DecInt(m), b, NaN) : m \in {-1, 0, 1}, b \in AxisVals}

\* the mirror image of p in an axis line, exactly
Mirror(l, p) ==
    IF is_vertical(l) THEN Point(ExactSub(Twice(l.x), p.x), p.y)
    ELSE IF l.slope.c = 0 THEN Point(p.x, ExactSub(Twice(l.intercept), p.y))
    ELSE IF l.slope.c = 1
    THEN Point(ExactSub(p.y, l.intercept), ExactAdd(p.x, l.intercept))
    ELSE Point(ExactSub(l.intercept, p.y), ExactSub(l.intercept, p.x))

\* the lines of reflective symmetry of the point set
TrueAxes == {l \in AxisLines : \A p \in PointSet : Mirror(l, p) \in PointSet}

\* C2: for a finder built from at least 3 distinct points, find() yields
\* exactly the lines of reflective symmetry of the point set: each is equal
\* to a yielded line, and every yielded line is one of them.
FindComplete ==
    (finder = "built" /\ Len(points) >= 3 /\ gens[1].pc = "done") =>
        /\ \A l \in TrueAxes : \E y \in Found(gens[1]) : LineEq(l, y, prec)
        /\ \A y \in Found(gens[1]) : \E l \in TrueAxes : LineEq(l, y, prec)

\* C3: constructing a finder from 0, 1 or 2 points fails with ValueError and
\* gives no finder; constructing from 3 or more points succeeds.
ConstructChecksLength ==
    /\ finder = "ValueError" => (Len(input) <= 2 /\ points = <<>>)
    /\ finder = "built" => Len(input) >= 3
    /\ (finder = "none" /\ Len(input) <= 2) =>
           /\ ENABLED (Construct /\ finder' = "ValueError")
           /\ ~ENABLED (Construct /\ finder' = "built")
    /\ (finder = "none" /\ Len(input) >= 3) =>
           /\ ENABLED (Construct /\ finder' = "built")
           /\ ~ENABLED (Construct /\ finder' = "ValueError")

\* a list of exactly two points was refused
ConstructRefusedTwo == finder = "ValueError" /\ Len(input) = 2

\* C4: every constructed finder holds a point set without two equal points
\* and of size at least 3.
WorkingSetInvariant ==
    finder = "built" =>
        /\ Len(points) >= 3
        /\ \A i, j \in 1..Len(points) :
               i # j => ~PointEq(points[i], points[j], prec)

\* C7: every line find() yields passes through the centroid of the point
\* set: contains_point(centroid) if it is not vertical, x == centroid.x if
\* it is.
FoundThroughCentroid ==
    \A s \in Slots : \A l \in Found(gens[s]) :
        LET c == centroid(points, prec)
        IN  IF is_vertical(l) THEN DecEq(l.x, c.x)
            ELSE contains_point(l, c, prec)

\* the lines _candidate_symmetry_lines constructs, in order: the centroid
\* to the midpoint of each pair i0 < i1, then the centroid to each point
PairList(n) ==
    LET ps == {<<i0, i1>> : i0 \in 1..n, i1 \in 1..n}
        idx(pr) == (pr[1] - 1) * n + pr[2]
        good == {pr \in ps : pr[1] < pr[2]}
    IN  [k \in 1..Cardinality(good) |->
            CHOOSE pr \in good : Cardinality({q \in good : idx(q) < idx(pr)}) = k - 1]

Constructed(P) ==
    LET c == centroid(points, P)
        prs == PairList(Len(points))
    IN  [k \in 1..Len(prs) |->
            from_points(c, BisectionPoint(points[prs[k][1]], points[prs[k][2]], P), P)]
        \o [i \in 1..Len(points) |-> from_points(c, points[i], P)]

\* C8: the candidates yielded contain no two equal lines; each is one of the
\* constructed lines; every constructed line that is not yielded is equal to
\* a line yielded before it; and a finished generator has gone through all
\* the constructed lines.
CandidatesExact ==
    \A s \in Slots :
        LET g == gens[s]
            all == Constructed(prec)
        IN  (finder = "built" /\ g.pc # "none") =>
                /\ \A m1, m2 \in 1..Len(g.out) :
                       m1 # m2 => ~LineEq(g.out[m1].line, g.out[m2].line, prec)
                /\ g.n <= Len(all)
                /\ \A m \in 1..Len(g.out) : g.out[m].line = all[g.at[m]]
                /\ \A j \in 1..g.n :
                       \/ \E m \in 1..Len(g.out) : g.at[m] = j
                       \/ \E m \in 1..Len(g.out) :
                              g.at[m] < j /\ LineEq(g.out[m].line, all[j], prec)
                /\ g.pc = "done" => g.n = Len(all)

\* C5: a == b implies hash(a) == hash(b), for all Points and for all Lines
\* the Line constructor can build, two non-vertical lines that differ only
\* in a superfluous x included.
EqImpliesHashEq ==
    call.op \in {"line_eq", "point_eq"} => (call.eq => call.ha = call.hb)

\* C6: for two distinct points p0 and p1, a vertical pair and a pair with a
\* non-terminating slope included, Line.from_points(p0, p1) contains p0 and
\* contains p1.
RoundTripContains ==
    call.op = "from_points" => (call.on0 /\ call.on1)

ExactMul(a, b) == DecMul(a, b, 9)

\* 1 / d for a d whose reciprocal has two decimals
Recip(d) == CHOOSE q \in {Canon(k, -2) : k \in 1..100} : ExactMul(q, d) = DecInt(1)

\* the foot of the perpendicular from p onto the line y = m*x + b, exactly:
\* x = (p.x + m*(p.y - b)) / (m*m + 1), y = m*x + b
Foot(l, p) ==
    LET m == l.slope
        x == ExactMul(Recip(ExactAdd(ExactMul(m, m), DecInt(1))),
                      ExactAdd(p.x, ExactMul(m, ExactSub(p.y, l.intercept))))
    IN  Point(x, ExactAdd(ExactMul(m, x), l.intercept))

\* the point (2*f.x - p.x, 2*f.y - p.y), exactly
Across(f, p) == Point(ExactSub(Twice(f.x), p.x), ExactSub(Twice(f.y), p.y))

\* p lies on the line: p.x == a for the vertical line x = a, and
\* p.y = m*p.x + b otherwise
LiesOn(l, p) ==
    IF is_vertical(l) THEN DecEq(p.x, l.x)
    ELSE p.y = ExactAdd(ExactMul(l.slope, p.x), l.intercept)

\* C9: folded_point returns the reflection of p0 across the line, as Point
\* equality sees it: (2a - p0.x, p0.y) for the vertical line x = a,
\* (p0.x, 2b - p0.y) for the horizontal line y = b, (2*f.x - p0.x,
\* 2*f.y - p0.y) with f the foot of the perpendicular for a sloped line, and
\* p0 itself whenever p0 lies on the line.
FoldIsReflection ==
    (call.op = "fold" /\ (is_vertical(call.line) => ~call.line.x.nan)) =>
        LET l == call.line
            p == call.p0
        IN  /\ is_vertical(l) =>
                PointEq(call.r, Across(Point(l.x, p.y), p), prec)
            /\ (~is_vertical(l) /\ is_horizontal(l)) =>
                PointEq(call.r, Across(Point(p.x, l.intercept), p), prec)
            /\ (~is_vertical(l) /\ ~is_horizontal(l)) =>
                PointEq(call.r, Across(Foot(l, p), p), prec)
            /\ LiesOn(l, p) => PointEq(call.r, p, prec)

RECURSIVE RunToEnd(_, _, _)
\* a generator consumed fully
RunToEnd(g, pts, P) ==
    IF g.pc = "done" THEN g ELSE RunToEnd(RunGen(g, pts, P), pts, P)

\* seq is seq2, or seq2 stopped early
IsPrefix(seq, seq2) ==
    /\ Len(seq) <= Len(seq2)
    /\ \A m \in 1..Len(seq) : seq[m] = seq2[m]

\* what every find_all() generator of the finder has yielded so far: a prefix
\* of one sequence, all of it when consumed fully, no line twice, each line
\* paired with is_symmetry_line of the point set, and every constructed
\* candidate equal to exactly one line of the full sequence
SameSequence ==
    finder = "built" =>
        LET full == RunToEnd(NewGen, points, prec).out
            all == Constructed(prec)
        IN  /\ \A s \in Slots :
                   /\ IsPrefix(gens[s].out, full)
                   /\ gens[s].pc = "done" => gens[s].out = full
            /\ \A m \in 1..Len(full) :
                   full[m].sym = is_symmetry_line(full[m].line, points, prec)
            /\ \A m1, m2 \in 1..Len(full) :
                   m1 # m2 => ~LineEq(full[m1].line, full[m2].line, prec)
            /\ Len(points) >= 3 =>
                   \A j \in 1..Len(all) :
                       Cardinality({m \in 1..Len(full) :
                                       LineEq(full[m].line, all[j], prec)}) = 1

AmbientPreserved ==
    /\ call.op \in {"returned", "raised"} => prec = call.before
    /\ call.op = "returned" => call.result = normalize(call.d, call.before)

\* normalize returned a value it had to round, in the lowered precision
NormalizeRounded == call.op = "returned" /\ call.result # call.d

\* the slope and intercept that Line.contains_point's expression
\* p0.x * slope + intercept takes as operands: it has no branch before it
ContainsOperands(l) == {l.slope, l.intercept}

\* those that perpendicular_intersection_point's expressions take: it
\* returns before any arithmetic on a vertical and on a horizontal line
FootOperands(l) ==
    IF is_vertical(l) \/ is_horizontal(l) THEN {} ELSE {l.slope, l.intercept}

\* those of one folded_point(p0): contains_point first, then the foot of the
\* perpendicular unless p0 was found on the line
FoldOperands(l, p0, P) ==
    ContainsOperands(l) \cup
        (IF contains_point(l, p0, P) THEN {} ELSE FootOperands(l))

\* the points is_symmetry_line folds: every point up to the first whose fold
\* has no match
FoldedIndices(l, pts, P) ==
    {i1 \in 1..Len(pts) : \A j \in 1..(i1 - 1) : FoldMatches(l, pts, j, P)}

\* those of one is_symmetry_line(points)
SymmetryOperands(l, pts, P) ==
    UNION {FoldOperands(l, pts[i1], P) : i1 \in FoldedIndices(l, pts, P)}

\* C12: in every execution of find_all (and of the is_symmetry_line and
\* folded_point calls it makes, vertical candidate lines included) no
\* arithmetic expression takes a not-a-number slope or intercept as an
\* operand.
NaNKeptOut ==
    \A s \in Slots : \A m \in 1..Len(gens[s].out) :
        \A v \in SymmetryOperands(gens[s].out[m].line, points, prec) : ~v.nan

\* the fold of pts[i1] is pts[i1] itself or some element of the list, under
\* Point equality
FoldHasMatch(l, pts, i1, P) ==
    \/ PointEq(folded_point(l, pts[i1], P), pts[i1], P)
    \/ \E i2 \in 1..Len(pts) : PointEq(folded_point(l, pts[i1], P), pts[i2], P)

\* C13: is_symmetry_line(points) returns true exactly when the fold of every
\* point of the list equals the point or some element of the list under
\* Point equality; it returns false at the first point whose fold has no
\* match; a matched target is not removed, so every point is matched against
\* the whole list.  It is the value find_all pairs with the line.
SymmetryLoopExact ==
    call.op = "is_symmetry_line" =>
        LET l == call.line
            pts == call.pts
            ok == {i1 \in 1..Len(pts) : FoldHasMatch(l, pts, i1, prec)}
        IN  /\ call.loop.result = (ok = 1..Len(pts))
            /\ ~call.loop.result =>
                   /\ call.loop.stop \in 1..Len(pts)
                   /\ call.loop.stop \notin ok
                   /\ \A j \in 1..(call.loop.stop - 1) : j \in ok
            /\ call.loop.result = is_symmetry_line(l, pts, prec)

\* it returned true after matching one target twice, by two different points
MatchedTwice ==
    /\ call.op = "is_symmetry_line"
    /\ call.loop.result
    /\ \E a, b \in call.loop.pairs :
           /\ a[2] = b[2]
           /\ ~PointEq(call.pts[a[1]], call.pts[b[1]], prec)

====
